---- MODULE Spec2Model ----
(***************************************************************************)
(* State-machine model of the fixed-spread market-making loop of           *)
(* src/mmbot.py and src/GCBMMbot-MEXC-GCBEX/mmbot.py.                      *)
(*                                                                         *)
(* Both programs run the same main() loop; they differ in the signing      *)
(* scheme and in how cancel_all_orders talks to the exchange.  `variant`   *)
(* selects the program: "mmbot" is src/mmbot.py, "gcbex" is                *)
(* src/GCBMMbot-MEXC-GCBEX/mmbot.py.                                       *)
(*                                                                         *)
(* Numbers: Python floats are modelled as integers.  A price is counted in *)
(* units of 1e-7 of the quote currency, so that formatting a price to six  *)
(* fractional digits (f"{price:.6f}") rounds it to a multiple of ten       *)
(* units.  A balance of the quote asset is counted in the same unit times  *)
(* one unit of ORDER_SIZE.                                                 *)
(***************************************************************************)
EXTENDS Integers, Sequences, FiniteSets

VARIABLES
    \* ---- configuration, read once from the environment (lines 12-24) ----
    variant,          \* which of the two programs runs
    API_SECRET,       \* "secret", or "None" when the variable is not set
    SYMBOL,           \* sequence of characters, or NoneSymbol when not set
    TARGET_PRICE,
    SPREAD_PERCENT,   \* a fraction [num, den]
    ORDER_SIZE,
    PRICE_FLOOR,
    PRICE_CEIL,
    TELEGRAM_USER_IDS, \* the chat ids, in the order of the list
    \* ---- the locals of main() and of cancel_all_orders() ----
    pc,               \* position of the single thread of control
    current_price,
    bid_price,
    ask_price,
    base_asset,
    quote_asset,
    base_balance,
    quote_balance,
    orders,           \* cancel_all_orders: the list returned by the exchange
    idx,              \* cancel_all_orders: position of the for loop in orders
    raised,           \* the exception travelling to the loop boundary
    \* ---- the exchange ----
    resting,          \* the account's open orders for SYMBOL, oldest first
    \* ---- observations of the run (history, not read by the program) ----
    last,             \* the exchange call of the current step and how it ended
    calls,            \* exchange calls issued since the last time.sleep
    listed,           \* orders in the list the running cancel phase got
    cancelReqs,       \* cancel requests the running cancel phase issued
    cancelClean,      \* the cancel phase of this cycle got the list and the
                      \* exchange executed a cancel for each order so far
    fetchFailed,      \* per side: the balance fetch of this cycle failed
    fresh,            \* per side: the balance was fetched in this cycle
    submitted,        \* order requests issued in this cycle
    alerts,           \* send_telegram_alert calls of this cycle
    attempts,         \* deliveries tried by the alert of the current step
    logs,             \* log records of the current step
    signs,            \* the latest applications of sign(), at most two
    sent              \* the authenticated request of the current step

cfgVars == <<variant, API_SECRET, SYMBOL, TARGET_PRICE, SPREAD_PERCENT,
             ORDER_SIZE, PRICE_FLOOR, PRICE_CEIL, TELEGRAM_USER_IDS>>

locVars == <<current_price, bid_price, ask_price, base_asset, quote_asset,
             base_balance, quote_balance, orders, idx, raised>>

obsVars == <<last, calls, listed, cancelReqs, cancelClean, fetchFailed,
             fresh, submitted, alerts, attempts, logs>>

wireVars == <<signs, sent>>

vars == <<cfgVars, pc, locVars, resting, obsVars, wireVars>>

----------------------------------------------------------------------------
(* Bounds of the model *)

\* The exchange refuses a new order once this many rest on the account.
MaxResting == 2

----------------------------------------------------------------------------
(* Input domains *)

Variants == {"mmbot", "gcbex"}

\* os.getenv returns None for a variable that is not set.
NoneSymbol == <<"None">>

\* a SYMBOL no longer than the suffix main() cuts off
ShortSymbols == { <<"U","S","D","T">> }

Symbols == { <<"E","T","H","U","S","D","T">>, NoneSymbol } \cup ShortSymbols

Secrets == {"secret", "None"}

\* spread fraction in [0, 1)
Spreads == { [num |-> 1, den |-> 100], [num |-> 20, den |-> 100] }

TargetPrices == {50, 100, 200}

Floors == {90}

Ceils == {110}

OrderSizes == {0, 1}

\* TELEGRAM_USER_IDS.split(',')
SubscriberLists == { <<"1001", "1002">> }

\* what the ticker can answer
MarketPrices == {123}

\* what the account endpoint can report as free amount
FreeAmounts == {0, 99, 250}

\* a local of main() that no statement has assigned yet
Unset == 0 - 1

----------------------------------------------------------------------------
(* Pure helpers *)

Max(a, b) == IF a >= b THEN a ELSE b

Min(a, b) == IF a <= b THEN a ELSE b

\* main: spread = TARGET_PRICE * SPREAD_PERCENT
Spread(target, frac) == (target * frac.num) \div frac.den

\* a bid quoted around the price get_price returned
BidPriceAroundMarket(target, frac, floor) ==
    Max(current_price - Spread(current_price, frac), floor)

\* main: bid_price = max(TARGET_PRICE - spread, PRICE_FLOOR)
BidPrice(target, frac, floor) == Max(target - Spread(target, frac), floor)

\* main: ask_price = min(TARGET_PRICE + spread, PRICE_CEIL)
AskPrice(target, frac, ceil) == Min(target + Spread(target, frac), ceil)

\* f"{price:.6f}": the nearest multiple of 1e-6 (ten units), ties to even
Fmt6(p) ==
    LET q == p \div 10
        r == p % 10
    IN  IF r < 5 THEN 10 * q
        ELSE IF r > 5 THEN 10 * (q + 1)
        ELSE IF q % 2 = 0 THEN 10 * q ELSE 10 * (q + 1)

\* the length of the quote-currency code cut off the symbol
SuffixLen == 4

\* a base cut one character short of the quote: SYMBOL[:-3]
BaseAssetOfShortCut(sym) ==
    IF Len(sym) > 3 THEN SubSeq(sym, 1, Len(sym) - 3) ELSE <<>>

\* main: base_asset = SYMBOL[:-4]
BaseAssetOf(sym) ==
    IF Len(sym) > SuffixLen THEN SubSeq(sym, 1, Len(sym) - SuffixLen) ELSE <<>>

\* main: quote_asset = SYMBOL[-4:]
QuoteAssetOf(sym) ==
    IF Len(sym) > SuffixLen THEN SubSeq(sym, Len(sym) - SuffixLen + 1, Len(sym))
    ELSE sym

\* main: required_quote = bid_price * ORDER_SIZE
RequiredQuote(bid, size) == bid * size

\* main: required_base = ORDER_SIZE
RequiredBase(size) == size

\* the comparison written with > instead of >=
BuyCoveredStrict(balance, required) == balance > required

\* main: if quote_balance >= required_quote
BuyCovered(balance, required) == balance >= required

\* the sell side gated by a strict comparison
SellCoveredStrict(balance, required) == balance > required

\* main: if base_balance >= required_base
SellCovered(balance, required) == balance >= required

\* no exchange call was made in the current step
NoCall == [op |-> "none", outcome |-> "none", val |-> 0]

\* no exception is travelling
NoException == [type |-> "none", from |-> "none"]

Exception(type, from) == [type |-> type, from |-> from]

----------------------------------------------------------------------------
(* Text: a string is a sequence of characters; a key or a JSON punctuation
   mark that is never taken apart counts as one character *)

\* the element of a set of one element; in The({e(v) : v \in {x}}) the
\* value x is computed once, however often e uses it
The(S) == CHOOSE x \in S : TRUE

DigitChars == <<"0", "1", "2", "3", "4", "5", "6", "7", "8", "9">>

\* str(n) for a natural number
RECURSIVE Digits(_)
Digits(n) ==
    IF n < 10 THEN <<DigitChars[n + 1]>>
    ELSE Digits(n \div 10) \o <<DigitChars[(n % 10) + 1]>>

\* the last w decimal digits of n, zeros in front
RECURSIVE PadDigits(_, _)
PadDigits(n, w) ==
    IF w = 0 THEN <<>>
    ELSE PadDigits(n \div 10, w - 1) \o <<DigitChars[(n % 10) + 1]>>

\* f"{price:.6f}": the price rounded to 6 decimals, written out
PriceStr(p) ==
    LET q == Fmt6(p) \div 10
    IN  Digits(q \div 1000000) \o <<".">> \o PadDigits(q % 1000000, 6)

\* str() of a float with an integral value, as ORDER_SIZE = float(...)
FloatStr(n) == Digits(n) \o <<".", "0">>

LowerCase == <<"a", "b", "c", "d", "e", "f", "g", "h", "i", "j", "k", "l", "m",
               "n", "o", "p", "q", "r", "s", "t", "u", "v", "w", "x", "y", "z">>

UpperCase == <<"A", "B", "C", "D", "E", "F", "G", "H", "I", "J", "K", "L", "M",
               "N", "O", "P", "Q", "R", "S", "T", "U", "V", "W", "X", "Y", "Z">>

\* the upper-case letter of each lower-case letter
UpperOf ==
    [c \in {LowerCase[j] : j \in 1..Len(LowerCase)} |->
        UpperCase[CHOOSE j \in 1..Len(LowerCase) : LowerCase[j] = c]]

\* str.upper()
Upper(s) ==
    The({ [i \in 1..Len(t) |->
             IF t[i] \in DOMAIN UpperOf THEN UpperOf[t[i]] ELSE t[i]] :
          t \in {s} })

\* one entry of a params dict or of a JSON body
Field(k, v) == [k |-> k, v |-> v]

\* the keys the two programs use, in the order sorted() puts them
KeyOrder == <<"orderId", "price", "quantity", "side", "symbol", "timeInForce",
              "timestamp", "type">>

\* the entries of a dict whose keys are at position r or later of KeyOrder,
\* in that order
RECURSIVE ParamsFromRank(_, _)
ParamsFromRank(params, r) ==
    IF r > Len(KeyOrder) THEN <<>>
    ELSE SelectSeq(params, LAMBDA f : f.k = KeyOrder[r]) \o
         ParamsFromRank(params, r + 1)

\* the entries of a dict in the order of sorted(params)
SortedParams(params) == The({ ParamsFromRank(ps, 1) : ps \in {params} })

\* f"{k}={params[k]}"
QueryField(f) == <<f.k, "=">> \o f.v

\* '&'.join(...) over the entries in the given order
RECURSIVE Query(_)
Query(fields) ==
    The({ IF fs = <<>> THEN <<>>
          ELSE IF Len(fs) = 1 THEN QueryField(fs[1])
          ELSE QueryField(fs[1]) \o <<"&">> \o Query(Tail(fs)) :
          fs \in {fields} })

\* the values json.dumps writes without quotes
NumericKeys == {"quantity"}

JsonField(f) ==
    <<"\"", f.k, "\"", ":">> \o
    (IF f.k \in NumericKeys THEN f.v ELSE <<"\"">> \o f.v \o <<"\"">>)

RECURSIVE JsonFields(_)
JsonFields(fields) ==
    The({ IF fs = <<>> THEN <<>>
          ELSE IF Len(fs) = 1 THEN JsonField(fs[1])
          ELSE JsonField(fs[1]) \o <<",">> \o JsonFields(Tail(fs)) :
          fs \in {fields} })

\* json.dumps(body, separators=(',', ':'))
JsonDumps(fields) == <<"{">> \o JsonFields(fields) \o <<"}">>

----------------------------------------------------------------------------
(* sign: src/mmbot.py signs the sorted parameters, the other program signs
   timestamp, method, path and body *)

\* what one call of sign() reads: its arguments and API_SECRET
SignInput(secret, timestamp, method, path, body, params) ==
    [secret |-> secret, timestamp |-> timestamp, method |-> method,
     path |-> path, body |-> body, params |-> params]

\* hmac.new(key, message, sha256).hexdigest(), taken as a MAC without
\* collisions: two digests are equal only for equal key and message
Hmac(key, message) == [key |-> key, message |-> message]

\* a message that leaves the timestamp out
CanonicalMessageNoTimestamp(v, in) ==
    IF v = "gcbex"
       THEN Upper(in.method) \o in.path \o in.body
       ELSE Query(SortedParams(SelectSeq(in.params,
                                        LAMBDA f : f.k # "timestamp")))

\* the text sign() feeds to the MAC
CanonicalMessage(v, in) ==
    IF v = "gcbex"
       THEN in.timestamp \o Upper(in.method) \o in.path \o in.body
       ELSE Query(SortedParams(in.params))

Sign(v, in) == Hmac(in.secret, CanonicalMessage(v, in))

\* one application of sign(), as recorded in `signs`
Signed(v, in) ==
    The({ The({ [in |-> i, message |-> signature.message,
                 signature |-> signature] :
                signature \in {Sign(v, i)} }) :
          i \in {in} })

----------------------------------------------------------------------------
(* The authenticated requests: what each call signs and what it hands to
   requests.get / requests.post / requests.delete *)

\* str(int(time.time() * 1000)) at the moment of a call
ClockReadings == { <<"1", "7">> }

\* the order["orderId"] of the order at position i of the list
OrderId(i) == Digits(i)

NoRequest ==
    [timestamp |-> <<>>, method |-> <<>>, path |-> <<>>, query |-> <<>>,
     body |-> <<>>, signature |-> Hmac("none", <<>>)]

\* src/mmbot.py: params["signature"] = sign(params), then
\* requests.<method>(url, headers=headers, params=params)
ParamsRequest(method, path, params) ==
    The({ [signed |-> signed,
           wire |-> [timestamp |-> <<>>, method |-> method, path |-> path,
                     query |-> signed.in.params, body |-> <<>>,
                     signature |-> signed.signature]] :
          signed \in {Signed("mmbot", SignInput(API_SECRET, <<>>, <<>>, <<>>,
                                                <<>>, params))} })

\* the other program: signature = sign(timestamp, method, request_path,
\* signedBody), X-CH-TS and X-CH-SIGN headers, `query` appended to the url
\* and `body` passed as data
HeaderRequest(timestamp, method, path, signedBody, query, body) ==
    The({ [signed |-> signed,
           wire |-> [timestamp |-> timestamp, method |-> method,
                     path |-> path, query |-> query, body |-> body,
                     signature |-> signed.signature]] :
          signed \in {Signed("gcbex", SignInput(API_SECRET, timestamp, method,
                                                path, signedBody, <<>>))} })

\* get_balance
BalanceRequest(v, ts) ==
    IF v = "mmbot"
       THEN ParamsRequest(<<"G", "E", "T">>, <<"/", "account">>,
                          <<Field("timestamp", ts)>>)
       ELSE HeaderRequest(ts, <<"G", "E", "T">>,
                          <<"/", "sapi", "/", "v1", "/", "account">>,
                          <<>>, <<>>, <<>>)

\* cancel_all_orders: the request for the list of open orders
ListRequest(v, ts) ==
    IF v = "mmbot"
       THEN ParamsRequest(<<"G", "E", "T">>, <<"/", "openOrders">>,
                          <<Field("symbol", SYMBOL), Field("timestamp", ts)>>)
       ELSE HeaderRequest(ts, <<"G", "E", "T">>,
                          <<"/", "sapi", "/", "v2", "/", "openOrders">>,
                          <<>>, <<Field("symbol", SYMBOL)>>, <<>>)

\* cancel_all_orders: the cancel request for one order
CancelRequest(v, ts, id) ==
    IF v = "mmbot"
       THEN ParamsRequest(<<"D", "E", "L", "E", "T", "E">>,
                          <<"/", "api", "/", "v3", "/", "order">>,
                          <<Field("symbol", SYMBOL), Field("orderId", id),
                            Field("timestamp", ts)>>)
       ELSE LET cancel_body_json ==
                    JsonDumps(<<Field("symbol", SYMBOL),
                                Field("orderId", id)>>)
            IN  HeaderRequest(ts, <<"P", "O", "S", "T">>,
                              <<"/", "sapi", "/", "v2", "/", "cancel">>,
                              cancel_body_json, <<>>, cancel_body_json)

\* the fields of an order, in the order both programs write them
OrderFields(side, price) ==
    <<Field("symbol", SYMBOL), Field("side", <<side>>),
      Field("type", <<"LIMIT">>), Field("timeInForce", <<"GTC">>),
      Field("quantity", FloatStr(ORDER_SIZE)),
      Field("price", PriceStr(price))>>

\* place_order
PlaceRequest(v, ts, side, price) ==
    IF v = "mmbot"
       THEN ParamsRequest(<<"P", "O", "S", "T">>,
                          <<"/", "api", "/", "v3", "/", "order">>,
                          OrderFields(side, price) \o
                          <<Field("timestamp", ts)>>)
       ELSE LET body_json == JsonDumps(OrderFields(side, price))
            IN  HeaderRequest(ts, <<"P", "O", "S", "T">>,
                              <<"/", "sapi", "/", "v2", "/", "order">>,
                              body_json, <<>>, body_json)

\* the bookkeeping of one authenticated call
Issue(request) ==
    \E r \in {request} :
       /\ signs' = <<r.signed>>
       /\ sent' = r.wire

----------------------------------------------------------------------------
(* send_telegram_alert(message) *)

\* a loop whose first failed delivery ends it: later subscribers get nothing
DeliveriesUntilFailure(ids, failing) ==
    [i \in {j \in 1..Len(ids) : \A k \in failing : j <= k} |->
        [user |-> ids[i], ok |-> i \notin failing]]

\* the deliveries one call tries when requests.post fails for the
\* subscribers at the positions `failing`: the except clause of the loop
\* body logs the failure and the for loop goes on
Deliveries(ids, failing) ==
    [i \in 1..Len(ids) |-> [user |-> ids[i], ok |-> i \notin failing]]

\* one call of send_telegram_alert; it returns normally whatever fails
SendTelegramAlert(kind) ==
    \E failing \in SUBSET (1..Len(TELEGRAM_USER_IDS)) :
       /\ alerts' = Append(alerts, kind)
       /\ attempts' = Deliveries(TELEGRAM_USER_IDS, failing)


----------------------------------------------------------------------------
(* Initial state: configuration loaded, main() about to enter its loop *)

Init ==
    /\ variant \in Variants
    /\ API_SECRET \in Secrets
    /\ SYMBOL \in Symbols
    /\ TARGET_PRICE \in TargetPrices
    /\ SPREAD_PERCENT \in Spreads
    /\ ORDER_SIZE \in OrderSizes
    /\ PRICE_FLOOR \in Floors
    /\ PRICE_CEIL \in Ceils
    /\ PRICE_FLOOR <= PRICE_CEIL
    \* the wide spread, which reaches both bounds from a target between
    \* them, is tried with such a target only
    /\ SPREAD_PERCENT.num > 1 =>
          /\ PRICE_FLOOR <= TARGET_PRICE
          /\ TARGET_PRICE <= PRICE_CEIL
    \* the split of SYMBOL does not read the quote: one quote, with the
    \* target inside the bounds, is enough for the short symbols
    /\ SYMBOL \in ShortSymbols =>
          /\ PRICE_FLOOR <= TARGET_PRICE
          /\ TARGET_PRICE <= PRICE_CEIL
          /\ SPREAD_PERCENT.num = 1
    /\ TELEGRAM_USER_IDS \in SubscriberLists
    /\ pc = "FETCH_PRICE"
    /\ current_price = Unset
    /\ bid_price = Unset
    /\ ask_price = Unset
    /\ base_asset = <<>>
    /\ quote_asset = <<>>
    /\ base_balance = Unset
    /\ quote_balance = Unset
    /\ orders = <<>>
    /\ idx = 0
    /\ raised = NoException
    /\ resting = <<>>
    /\ last = NoCall
    /\ calls = 0
    /\ listed = 0
    /\ cancelReqs = 0
    /\ cancelClean = FALSE
    /\ fetchFailed = [base |-> FALSE, quote |-> FALSE]
    /\ fresh = [base |-> FALSE, quote |-> FALSE]
    /\ submitted = <<>>
    /\ alerts = <<>>
    /\ attempts = <<>>
    /\ logs = <<>>
    /\ signs = <<>>
    /\ sent = NoRequest

----------------------------------------------------------------------------
(* get_price() *)

PriceOutcomes == {"ok", "missing", "malformed", "transport"}

\* get_price falling back to the target only when an exception is caught
GetPriceResultNoElse(outcome, price, target) ==
    IF outcome \in {"ok", "missing"} THEN price ELSE target

\* what get_price returns: the parsed price, else TARGET_PRICE
GetPriceResult(outcome, price, target) ==
    IF outcome = "ok" THEN price ELSE target

PriceLog(outcome) ==
    CASE outcome = "ok" -> <<>>
      [] outcome = "missing" -> <<"warning">>
      [] OTHER -> <<"error">>

\* main: current_price = get_price().  The whole body of get_price is inside
\* its try block, the alert of the new price included.
GetPrice ==
    /\ pc = "FETCH_PRICE"
    /\ \E outcome \in PriceOutcomes, p \in MarketPrices :
          /\ current_price' = GetPriceResult(outcome, p, TARGET_PRICE)
          /\ last' = [op |-> "ticker", outcome |-> outcome,
                      val |-> IF outcome = "ok" THEN p ELSE 0]
          /\ IF outcome = "ok"
                THEN SendTelegramAlert("price")
                ELSE UNCHANGED <<alerts, attempts>>
          /\ logs' = PriceLog(outcome)
    /\ calls' = calls + 1
    /\ pc' = "SLEEP_PRICE"
    /\ UNCHANGED <<cfgVars, bid_price, ask_price, base_asset, quote_asset,
                   base_balance, quote_balance, orders, idx, raised, resting,
                   listed, cancelReqs, cancelClean, fetchFailed, fresh,
                   submitted, wireVars>>

----------------------------------------------------------------------------
(* time.sleep(10) *)

SleepStates == {"SLEEP_PRICE", "SLEEP_CANCEL", "SLEEP_BASE", "SLEEP_QUOTE",
                "SLEEP_BUY", "SLEEP_SELL", "SLEEP_ERR"}

\* a main() that fetches no balances: the gates read what the variables hold
SleepNextNoFetch(p) ==
    CASE p = "SLEEP_PRICE"  -> "QUOTE"
      [] p = "SLEEP_CANCEL" -> "EVALUATE_BUY"
      [] p = "SLEEP_BASE"   -> "FETCH_QUOTE"
      [] p = "SLEEP_QUOTE"  -> "EVALUATE_BUY"
      [] p = "SLEEP_BUY"    -> "EVALUATE_SELL"
      [] p = "SLEEP_SELL"   -> "FETCH_PRICE"
      [] p = "SLEEP_ERR"    -> "FETCH_PRICE"

\* a main() that evaluates the sell side before the buy side
SleepNextSellFirst(p) ==
    CASE p = "SLEEP_PRICE"  -> "QUOTE"
      [] p = "SLEEP_CANCEL" -> "FETCH_BASE"
      [] p = "SLEEP_BASE"   -> "FETCH_QUOTE"
      [] p = "SLEEP_QUOTE"  -> "EVALUATE_SELL"
      [] p = "SLEEP_SELL"   -> "EVALUATE_BUY"
      [] p = "SLEEP_BUY"    -> "FETCH_PRICE"
      [] p = "SLEEP_ERR"    -> "FETCH_PRICE"

\* the statement that follows each time.sleep(10) of main
SleepNext(p) ==
    CASE p = "SLEEP_PRICE"  -> "QUOTE"
      [] p = "SLEEP_CANCEL" -> "FETCH_BASE"
      [] p = "SLEEP_BASE"   -> "FETCH_QUOTE"
      [] p = "SLEEP_QUOTE"  -> "EVALUATE_BUY"
      [] p = "SLEEP_BUY"    -> "EVALUATE_SELL"
      [] p = "SLEEP_SELL"   -> "FETCH_PRICE"
      [] p = "SLEEP_ERR"    -> "FETCH_PRICE"

\* an order that was placed in an earlier cycle
Aged(rest) == [i \in 1..Len(rest) |-> [rest[i] EXCEPT !.old = TRUE]]

Sleep ==
    /\ pc \in SleepStates
    /\ pc' = SleepNext(pc)
    /\ calls' = 0
    \* what was observed of the step that ends here is dropped
    /\ logs' = <<>>
    /\ attempts' = <<>>
    /\ last' = NoCall
    /\ listed' = 0
    /\ cancelReqs' = 0
    /\ signs' = <<>>
    /\ sent' = NoRequest
    /\ IF SleepNext(pc) = "FETCH_PRICE"
          THEN \* back to the top of while True: a new cycle begins
               /\ resting' = Aged(resting)
               /\ cancelClean' = FALSE
               /\ fetchFailed' = [base |-> FALSE, quote |-> FALSE]
               /\ fresh' = [base |-> FALSE, quote |-> FALSE]
               /\ submitted' = <<>>
               /\ alerts' = <<>>
          ELSE UNCHANGED <<resting, cancelClean, fetchFailed, fresh,
                           submitted, alerts>>
    /\ UNCHANGED <<cfgVars, locVars>>

----------------------------------------------------------------------------
(* main: the quote *)

Quote ==
    /\ pc = "QUOTE"
    /\ bid_price' = BidPrice(TARGET_PRICE, SPREAD_PERCENT, PRICE_FLOOR)
    /\ ask_price' = AskPrice(TARGET_PRICE, SPREAD_PERCENT, PRICE_CEIL)
    /\ logs' = <<"info">>
    /\ pc' = "CANCEL_LIST"
    /\ UNCHANGED <<cfgVars, current_price, base_asset, quote_asset,
                   base_balance, quote_balance, orders, idx, raised, resting,
                   last, calls, listed, cancelReqs, cancelClean, fetchFailed,
                   fresh, submitted, alerts, attempts, wireVars>>

----------------------------------------------------------------------------
(* cancel_all_orders() *)

ListOutcomes == {"list", "error", "nonlist", "transport"}

CancelOutcomes == {"canceled", "refused", "transport", "lost"}

\* the cancel call ended in an exception (no response, or none that parses)
CancelRaises(outcome) == outcome \in {"transport", "lost"}

\* the exchange executed the cancel ("lost": it did, the answer never arrived)
CancelExecuted(outcome) == outcome \in {"canceled", "lost"}

RECURSIVE RemoveFirst(_, _)
RemoveFirst(rest, order) ==
    IF rest = <<>> THEN <<>>
    ELSE IF Head(rest) = order THEN Tail(rest)
    ELSE <<Head(rest)>> \o RemoveFirst(Tail(rest), order)

\* a cancel request that names the wrong order: nothing is removed
ApplyCancelNothing(rest, order, outcome) == rest

\* the exchange's side of a cancel request for `order`
ApplyCancel(rest, order, outcome) ==
    IF CancelExecuted(outcome) THEN RemoveFirst(rest, order) ELSE rest

\* the for loop goes on to the next order: the only try block of
\* cancel_all_orders encloses the whole loop, so an exception ends it
CancelContinues(outcome) == ~CancelRaises(outcome)

\* the log record cancel_all_orders writes for one cancel call
CancelLog(v, outcome) ==
    IF CancelRaises(outcome) THEN "error"
    ELSE IF v = "mmbot" THEN "info"
    ELSE IF outcome = "canceled" THEN "info" ELSE "warning"

ListLog(outcome) ==
    CASE outcome = "list" -> <<>>
      [] outcome = "transport" -> <<"error">>
      [] OTHER -> <<"warning">>

\* a cancel_all_orders that raises on a response that is not a list
ListRaisesOnNonList(outcome) == outcome \in {"error", "nonlist"}

\* cancel_all_orders lets an exception out after the list call: never, the
\* call, resp.json() and the two checks that return are inside the try block
ListRaises(outcome) == FALSE

\* cancel_all_orders up to the checks of the list response
CancelList ==
    /\ pc = "CANCEL_LIST"
    /\ IF API_SECRET = "None"
          THEN UNCHANGED wireVars
          ELSE \E ts \in ClockReadings : Issue(ListRequest(variant, ts))
    /\ IF API_SECRET = "None"
         THEN \* sign(): API_SECRET.encode() raises AttributeError
              /\ IF variant = "mmbot"
                    THEN \* src/mmbot.py line 118 is outside the try block
                         /\ raised' = Exception("AttributeError",
                                                "cancel_all_orders")
                         /\ pc' = "HANDLER"
                         /\ logs' = <<>>
                    ELSE \* line 128 of the other program is inside it
                         /\ raised' = raised
                         /\ pc' = "SLEEP_CANCEL"
                         /\ logs' = <<"error">>
              /\ UNCHANGED <<orders, idx, last, calls, listed, cancelClean>>
         ELSE \E outcome \in ListOutcomes :
              /\ last' = [op |-> "openOrders", outcome |-> outcome,
                          val |-> Len(resting)]
              /\ calls' = calls + 1
              /\ raised' = IF ListRaises(outcome)
                               THEN Exception("ValueError", "cancel_all_orders")
                               ELSE raised
              /\ IF outcome = "list" /\ resting # <<>>
                    THEN /\ orders' = resting
                         /\ idx' = 1
                         /\ listed' = Len(resting)
                         /\ cancelClean' = TRUE
                         /\ pc' = "CANCEL_EACH"
                    ELSE /\ orders' = <<>>
                         /\ idx' = 0
                         /\ listed' = 0
                         /\ cancelClean' = (outcome = "list")
                         /\ pc' = IF ListRaises(outcome)
                                     THEN "HANDLER" ELSE "SLEEP_CANCEL"
              /\ logs' = ListLog(outcome)
    /\ UNCHANGED <<cfgVars, current_price, bid_price, ask_price, base_asset,
                   quote_asset, base_balance, quote_balance, resting,
                   cancelReqs, fetchFailed, fresh, submitted, alerts,
                   attempts>>

\* one iteration of the for loop: the cancel request for orders[idx]
CancelOne ==
    /\ pc = "CANCEL_EACH"
    /\ \E ts \in ClockReadings : Issue(CancelRequest(variant, ts, OrderId(idx)))
    /\ \E outcome \in CancelOutcomes :
          LET more == CancelContinues(outcome) /\ idx < Len(orders) IN
          /\ resting' = ApplyCancel(resting, orders[idx], outcome)
          /\ last' = [op |-> "cancel", outcome |-> outcome, val |-> idx]
          /\ logs' = <<CancelLog(variant, outcome)>>
          /\ cancelClean' = (cancelClean /\ CancelExecuted(outcome)
                               /\ (more \/ idx = Len(orders)))
          /\ IF more
                THEN /\ idx' = idx + 1
                     /\ orders' = orders
                     /\ pc' = "CANCEL_EACH"
                ELSE /\ idx' = 0
                     /\ orders' = <<>>
                     /\ pc' = "SLEEP_CANCEL"
    /\ calls' = calls + 1
    /\ cancelReqs' = cancelReqs + 1
    /\ UNCHANGED <<cfgVars, current_price, bid_price, ask_price, base_asset,
                   quote_asset, base_balance, quote_balance, raised, listed,
                   fetchFailed, fresh, submitted, alerts, attempts>>

----------------------------------------------------------------------------
(* get_balance(asset) *)

BalanceOutcomes == {"found", "absent", "nobalances", "badfree", "transport"}

\* a get_balance whose fallback is an amount that covers any order
GetBalanceResultAmple(outcome, free) ==
    IF outcome = "found" THEN free ELSE 250

\* what get_balance returns: the free amount of the asset, else 0.0
GetBalanceResult(outcome, free) == IF outcome = "found" THEN free ELSE 0

\* the call did not tell the balance: no response, or none with balances
BalanceFetchFailed(outcome) ==
    outcome \in {"nobalances", "badfree", "transport"}

BalanceLog(outcome) ==
    CASE outcome \in {"found", "absent"} -> <<>>
      [] outcome = "nobalances" -> <<"warning">>
      [] OTHER -> <<"error">>

\* get_balance signs before its try block: with API_SECRET unset,
\* API_SECRET.encode() raises AttributeError out of get_balance
BalanceRaises(secret) == secret = "None"

\* main: the two assets, then base_balance = get_balance(base_asset)
FetchBase ==
    /\ pc = "FETCH_BASE"
    /\ IF SYMBOL = NoneSymbol \/ BalanceRaises(API_SECRET)
          THEN UNCHANGED wireVars
          ELSE \E ts \in ClockReadings : Issue(BalanceRequest(variant, ts))
    /\ IF SYMBOL = NoneSymbol
         THEN \* SYMBOL[:-4] on None raises TypeError
              /\ raised' = Exception("TypeError", "main")
              /\ pc' = "HANDLER"
              /\ logs' = <<>>
              /\ UNCHANGED <<base_asset, quote_asset, base_balance, last,
                             calls, fetchFailed, fresh>>
         ELSE /\ base_asset' = BaseAssetOf(SYMBOL)
              /\ quote_asset' = QuoteAssetOf(SYMBOL)
              /\ IF BalanceRaises(API_SECRET)
                    THEN /\ raised' = Exception("AttributeError",
                                                "get_balance")
                         /\ pc' = "HANDLER"
                         /\ logs' = <<>>
                         /\ UNCHANGED <<base_balance, last, calls,
                                        fetchFailed, fresh>>
                    ELSE \E outcome \in BalanceOutcomes, free \in FreeAmounts :
                         /\ outcome # "found" => free = 0
                         \* no entry of balances has an empty asset name
                         /\ outcome = "found" => BaseAssetOf(SYMBOL) # <<>>
                         /\ base_balance' = GetBalanceResult(outcome, free)
                         /\ last' = [op |-> "account", outcome |-> outcome,
                                     val |-> free]
                         /\ calls' = calls + 1
                         /\ fetchFailed' = [fetchFailed EXCEPT
                               !.base = BalanceFetchFailed(outcome)]
                         /\ fresh' = [fresh EXCEPT !.base = TRUE]
                         /\ logs' = BalanceLog(outcome)
                         /\ raised' = raised
                         /\ pc' = "SLEEP_BASE"
    /\ UNCHANGED <<cfgVars, current_price, bid_price, ask_price,
                   quote_balance, orders, idx, resting, listed, cancelReqs,
                   cancelClean, submitted, alerts, attempts>>

\* main: quote_balance = get_balance(quote_asset)
FetchQuote ==
    /\ pc = "FETCH_QUOTE"
    /\ IF BalanceRaises(API_SECRET)
          THEN UNCHANGED wireVars
          ELSE \E ts \in ClockReadings : Issue(BalanceRequest(variant, ts))
    /\ IF BalanceRaises(API_SECRET)
         THEN /\ raised' = Exception("AttributeError", "get_balance")
              /\ pc' = "HANDLER"
              /\ logs' = <<>>
              /\ UNCHANGED <<quote_balance, last, calls, fetchFailed, fresh>>
         ELSE \E outcome \in BalanceOutcomes, free \in FreeAmounts :
              /\ outcome # "found" => free = 0
              /\ quote_balance' = GetBalanceResult(outcome, free)
              /\ last' = [op |-> "account", outcome |-> outcome, val |-> free]
              /\ calls' = calls + 1
              /\ fetchFailed' = [fetchFailed EXCEPT
                    !.quote = BalanceFetchFailed(outcome)]
              /\ fresh' = [fresh EXCEPT !.quote = TRUE]
              /\ logs' = BalanceLog(outcome)
              /\ raised' = raised
              /\ pc' = "SLEEP_QUOTE"
    /\ UNCHANGED <<cfgVars, current_price, bid_price, ask_price, base_asset,
                   quote_asset, base_balance, orders, idx, resting, listed,
                   cancelReqs, cancelClean, submitted, alerts, attempts>>

----------------------------------------------------------------------------
(* place_order(side, price) *)

PlaceOutcomes == {"accepted", "rejected", "transport", "lost"}

\* the exchange took the order ("lost": it did, the answer never arrived)
PlaceExecuted(outcome) == outcome \in {"accepted", "lost"}

\* the request fails on the bot's side: no orderId, or an exception
PlaceFailed(outcome) == outcome # "accepted"

\* place_order without its try block
PlaceRaisesUncaught(outcome) == outcome \in {"transport", "lost"}

\* place_order lets an exception of the request out: never, the request and
\* the reading of its response are inside the try block
PlaceRaises(outcome) == FALSE

\* the log record place_order writes
PlaceLog(outcome) ==
    CASE outcome = "accepted" -> "info"
      [] outcome = "rejected" -> "warning"
      [] OTHER -> "error"

\* the request place_order sends: the price goes out formatted
OrderRequest(side, price, size, outcome) ==
    [side |-> side, price |-> price, wire |-> Fmt6(price),
     quantity |-> size, outcome |-> outcome]

\* place_order(side, price) as main calls it (API_SECRET is set there: a
\* cycle without it ends in get_balance); `after` is the statement that
\* follows the call in main.  place_order sends no alert.
PlaceOrder(side, price, after) ==
    /\ \E ts \in ClockReadings : Issue(PlaceRequest(variant, ts, side, price))
    /\ \E outcome \in PlaceOutcomes :
       /\ PlaceExecuted(outcome) => Len(resting) < MaxResting
       /\ submitted' = Append(submitted,
                              OrderRequest(side, price, ORDER_SIZE, outcome))
       /\ resting' = IF PlaceExecuted(outcome)
                        THEN Append(resting, [side |-> side, old |-> FALSE])
                        ELSE resting
       /\ last' = [op |-> "order", outcome |-> outcome, val |-> price]
       /\ logs' = <<PlaceLog(outcome)>>
       /\ calls' = calls + 1
       /\ IF PlaceRaises(outcome)
             THEN /\ raised' = Exception("RequestException", "place_order")
                  /\ pc' = "HANDLER"
             ELSE /\ raised' = raised
                  /\ pc' = after
       /\ UNCHANGED <<alerts, attempts>>

----------------------------------------------------------------------------
(* main: the two sides of the quote *)

EvaluateBuy ==
    /\ pc = "EVALUATE_BUY"
    /\ IF BuyCovered(quote_balance, RequiredQuote(bid_price, ORDER_SIZE))
         THEN PlaceOrder("BUY", bid_price, "SLEEP_BUY")
         ELSE /\ SendTelegramAlert("nobuy")
              /\ logs' = <<"warning">>
              /\ pc' = "SLEEP_BUY"
              /\ UNCHANGED <<submitted, resting, last, calls, raised,
                             wireVars>>
    /\ UNCHANGED <<cfgVars, current_price, bid_price, ask_price, base_asset,
                   quote_asset, base_balance, quote_balance, orders, idx,
                   listed, cancelReqs, cancelClean, fetchFailed, fresh>>

EvaluateSell ==
    /\ pc = "EVALUATE_SELL"
    /\ IF SellCovered(base_balance, RequiredBase(ORDER_SIZE))
         THEN PlaceOrder("SELL", ask_price, "SLEEP_SELL")
         ELSE /\ SendTelegramAlert("nosell")
              /\ logs' = <<"warning">>
              /\ pc' = "SLEEP_SELL"
              /\ UNCHANGED <<submitted, resting, last, calls, raised,
                             wireVars>>
    /\ UNCHANGED <<cfgVars, current_price, bid_price, ask_price, base_asset,
                   quote_asset, base_balance, quote_balance, orders, idx,
                   listed, cancelReqs, cancelClean, fetchFailed, fresh>>

----------------------------------------------------------------------------
(* main: except Exception at the loop boundary *)

\* a handler that leaves the loop
AfterHandlerExit == "EXIT"

\* what follows the handler's log record and alert: its time.sleep(10)
AfterHandler == "SLEEP_ERR"

Handler ==
    /\ pc = "HANDLER"
    /\ logs' = <<"error">>
    /\ SendTelegramAlert("error")
    /\ raised' = NoException
    /\ orders' = <<>>
    /\ idx' = 0
    /\ pc' = AfterHandler
    /\ UNCHANGED <<cfgVars, current_price, bid_price, ask_price, base_asset,
                   quote_asset, base_balance, quote_balance, resting, last,
                   calls, listed, cancelReqs, cancelClean, fetchFailed, fresh,
                   submitted, wireVars>>

----------------------------------------------------------------------------
(* while True *)

Next ==
    \/ GetPrice
    \/ Sleep
    \/ Quote
    \/ CancelList
    \/ CancelOne
    \/ FetchBase
    \/ FetchQuote
    \/ EvaluateBuy
    \/ EvaluateSell
    \/ Handler

Spec == Init /\ [][Next]_vars

\* Every statement of the single thread returns: a remote call ends with a
\* response or an exception, a sleep ends after its ten seconds.
FairSpec == Spec /\ WF_vars(Next)

----------------------------------------------------------------------------
(* sign() on its own: applied to inputs drawn from small sets, the last two
   applications kept in `signs` *)

SignSecrets == {"secret", "other"}

SignTimestamps == { <<"1", "7">>, <<"1", "8">> }

SignMethods == { <<"G", "E", "T">>, <<"g", "e", "t">>, <<"P", "O", "S", "T">> }

SignPaths == { <<"/", "a">>, <<"/", "b">> }

SignBodies == { <<>>, <<"{", "}">> }

\* params dicts with the same keys, written in insertion order
SignParamSets ==
    { <<Field("symbol", sym), Field("side", <<side>>), Field("timestamp", ts)>> :
         sym \in { <<"E">>, <<"B">> }, side \in {"BUY", "SELL"},
         ts \in SignTimestamps }

\* the inputs of one signed request: sign() of src/mmbot.py is handed the
\* params only, whatever the method and the path of the request are
SignInputs(v) ==
    IF v = "gcbex"
       THEN { SignInput(k, ts, m, p, b, <<>>) :
                 k \in SignSecrets, ts \in SignTimestamps, m \in SignMethods,
                 p \in SignPaths, b \in SignBodies }
       ELSE { SignInput(k, <<>>, m, p, <<>>, ps) :
                 k \in SignSecrets, m \in SignMethods, p \in SignPaths,
                 ps \in SignParamSets }

SignInit ==
    /\ Init
    /\ API_SECRET # "None"
    /\ SYMBOL # NoneSymbol
    /\ SYMBOL \notin ShortSymbols
    /\ PRICE_FLOOR <= TARGET_PRICE
    /\ TARGET_PRICE <= PRICE_CEIL
    /\ ORDER_SIZE = 1

SignCall ==
    /\ \E in \in SignInputs(variant) :
          signs' = IF signs = <<>>
                      THEN <<Signed(variant, in)>>
                      ELSE <<signs[Len(signs)], Signed(variant, in)>>
    /\ UNCHANGED <<cfgVars, pc, locVars, resting, obsVars, sent>>

SignNext == SignCall

SignSpec == SignInit /\ [][SignNext]_vars

----------------------------------------------------------------------------
(* Properties *)

\* the requests of this cycle for one side
Requests(side) == {i \in 1..Len(submitted) : submitted[i].side = side}

\* the alerts of this cycle of one kind
Alerts(kind) == {i \in 1..Len(alerts) : alerts[i] = kind}

Resting(side) == {i \in 1..Len(resting) : resting[i].side = side}

OldResting == {i \in 1..Len(resting) : resting[i].old}

\* the cycle has passed EVALUATE_BUY
BuyEvaluated == pc \in {"SLEEP_BUY", "EVALUATE_SELL", "SLEEP_SELL"}

\* the cycle has passed EVALUATE_SELL
SellEvaluated == pc = "SLEEP_SELL"

\* C1: in every cycle the computed quote satisfies
\* PRICE_FLOOR <= bid_price <= ask_price <= PRICE_CEIL, also for a target
\* price outside [PRICE_FLOOR, PRICE_CEIL].
C1_QuoteWithinBounds ==
    pc = "CANCEL_LIST" =>
       /\ PRICE_FLOOR <= bid_price
       /\ bid_price <= ask_price
       /\ ask_price <= PRICE_CEIL

\* C2: once a cycle has evaluated the buy side, exactly one BUY request at
\* bid_price went out if the quote balance fetched in this cycle covers
\* bid_price * ORDER_SIZE and no insufficient-funds alert was sent; otherwise
\* no BUY request went out and exactly one insufficient-funds alert was sent.
\* Before the evaluation the cycle has sent neither.
C2_BuyGate ==
    /\ BuyEvaluated =>
          /\ fresh.quote
          /\ IF quote_balance >= bid_price * ORDER_SIZE
                THEN /\ Cardinality(Requests("BUY")) = 1
                     /\ \A i \in Requests("BUY") :
                           submitted[i].price = bid_price
                     /\ Alerts("nobuy") = {}
                ELSE /\ Requests("BUY") = {}
                     /\ Cardinality(Alerts("nobuy")) = 1
    /\ ~BuyEvaluated => Requests("BUY") = {} /\ Alerts("nobuy") = {}

C2_BuySkipped ==
    /\ pc = "SLEEP_BUY"
    /\ ORDER_SIZE = 1
    /\ bid_price = 99
    /\ quote_balance = 0
    /\ Requests("BUY") = {}
    /\ Cardinality(Alerts("nobuy")) = 1

\* C3 (state part): a cycle that evaluates the buy side goes on to evaluate the sell side
\* whatever the buy side did, and once the sell side is evaluated exactly one
\* SELL request at ask_price went out if the base balance fetched in this
\* cycle is at least ORDER_SIZE, and none (with one alert) otherwise.
C3_SellInv ==
    /\ SellEvaluated =>
          /\ fresh.base
          /\ IF base_balance >= ORDER_SIZE
                THEN /\ Cardinality(Requests("SELL")) = 1
                     /\ \A i \in Requests("SELL") :
                           submitted[i].price = ask_price
                     /\ Alerts("nosell") = {}
                ELSE /\ Requests("SELL") = {}
                     /\ Cardinality(Alerts("nosell")) = 1
    /\ ~SellEvaluated => Requests("SELL") = {} /\ Alerts("nosell") = {}

\* C3: the sell gate above holds in every state, and EVALUATE_BUY is always
\* followed by its sleep and EVALUATE_SELL, EVALUATE_SELL by its sleep.
C3_SellGate ==
    /\ []C3_SellInv
    /\ [][/\ pc = "EVALUATE_BUY" => pc' = "SLEEP_BUY"
          /\ pc = "SLEEP_BUY" => pc' = "EVALUATE_SELL"
          /\ pc = "EVALUATE_SELL" => pc' = "SLEEP_SELL"]_vars

C3_SellAfterFailedBuy ==
    /\ pc = "SLEEP_SELL"
    /\ \E i \in Requests("BUY") : submitted[i].outcome = "transport"
    /\ \E i \in Requests("SELL") : submitted[i].outcome = "accepted"

\* C4: when the list call returned N orders, the cancel phase ends with a
\* cancel request issued for each of the N, whatever happened to any of them.
C4_AllCancelsAttempted ==
    (pc = "SLEEP_CANCEL" /\ listed > 0) => cancelReqs = listed

\* C5 as claimed: when a cycle submits its orders no order of an earlier
\* cycle is still resting, and at most one BUY and one SELL rest at any time.
C5_NeverStacks ==
    /\ submitted # <<>> => OldResting = {}
    /\ Cardinality(Resting("BUY")) <= 1
    /\ Cardinality(Resting("SELL")) <= 1

\* C5 as amended: in a cycle whose list call returned the open orders and in
\* which the exchange executed a cancel for every one of them, from the end
\* of the cancel phase to the end of the cycle no order of an earlier cycle
\* rests and at most one BUY and one SELL rest.
C5_ReplacesWhenCancelled ==
    (cancelClean /\ pc # "CANCEL_EACH") =>
       /\ OldResting = {}
       /\ Cardinality(Resting("BUY")) <= 1
       /\ Cardinality(Resting("SELL")) <= 1

C5_OldQuoteCleared ==
    /\ pc = "SLEEP_CANCEL"
    /\ cancelClean
    /\ listed = 2
    /\ cancelReqs = 2
    /\ resting = <<>>

\* C6: when the order request is rejected or fails in transport, place_order
\* returns to the loop, the failure is logged and an alert reports it.
C6_PlaceFailureReported ==
    (last.op = "order" /\ PlaceFailed(last.outcome)) =>
       /\ pc \in {"SLEEP_BUY", "SLEEP_SELL"}
       /\ logs # <<>>
       /\ attempts # <<>>

\* C7: an exception is always on its way to the handler, the handler alerts,
\* sleeps and starts a new cycle, and FETCH_PRICE comes back forever.
C7_LoopNeverEnds ==
    /\ [](raised # NoException => pc = "HANDLER")
    /\ [][pc = "HANDLER" =>
            /\ pc' = "SLEEP_ERR"
            /\ alerts' = Append(alerts, "error")]_vars
    /\ [][pc = "SLEEP_ERR" => pc' = "FETCH_PRICE"]_vars
    /\ (pc = "HANDLER" ~> pc = "FETCH_PRICE")
    /\ []<>(pc = "FETCH_PRICE")

C7_ErrorReported ==
    /\ pc = "SLEEP_ERR"
    /\ Cardinality(Alerts("error")) = 1
    /\ \E i \in 1..Len(attempts) : ~attempts[i].ok

\* the balance the get_balance call of the current step returned
Returned == IF pc = "SLEEP_BASE" THEN base_balance ELSE quote_balance

\* C8: get_balance returns 0 unless the asset was found, returns the free
\* amount when it returns anything else, and never raises to main.
C8_BalanceFailSafe ==
    /\ raised.from # "get_balance"
    /\ last.op = "account" =>
          /\ pc \in {"SLEEP_BASE", "SLEEP_QUOTE"}
          /\ last.outcome # "found" => Returned = 0
          /\ Returned # 0 => (last.outcome = "found" /\ Returned = last.val)

\* C9 (state part): get_price never raises, returns TARGET_PRICE unless the response
\* carried a price that parses, and the cycle goes on to quote.
C9_PriceInv ==
    /\ raised.from # "get_price"
    /\ last.op = "ticker" =>
          /\ pc = "SLEEP_PRICE"
          /\ last.outcome # "ok" => current_price = TARGET_PRICE
          /\ last.outcome = "ok" => current_price = last.val

\* C9: the fallback above holds in every state, and get_price is always
\* followed by its sleep, the quote and the cancel phase.
C9_PriceFallback ==
    /\ []C9_PriceInv
    /\ [][/\ pc = "FETCH_PRICE" => pc' = "SLEEP_PRICE"
          /\ pc = "SLEEP_PRICE" => pc' = "QUOTE"
          /\ pc = "QUOTE" => pc' = "CANCEL_LIST"]_vars

C9_FellBack ==
    /\ pc = "SLEEP_PRICE"
    /\ last.op = "ticker"
    /\ last.outcome = "missing"
    /\ current_price = TARGET_PRICE
    /\ alerts = <<>>

\* C10: a time.sleep separates any two consecutive exchange calls.
C10_DelayBetweenCalls == calls <= 1

\* an alert was sent by the step that led to this state
AlertSentNow ==
    \/ pc = "SLEEP_PRICE" /\ last.outcome = "ok"
    \/ pc = "SLEEP_BUY" /\ Alerts("nobuy") # {}
    \/ pc = "SLEEP_SELL" /\ Alerts("nosell") # {}
    \/ pc = "SLEEP_ERR"

\* C11: every call of send_telegram_alert tries one delivery per configured
\* subscriber, in the configured order, whichever deliveries fail, and the
\* caller goes on to its next statement with no exception raised.
C11_EverySubscriberTried ==
    /\ raised.from # "send_telegram_alert"
    /\ AlertSentNow =>
          /\ Len(attempts) = Len(TELEGRAM_USER_IDS)
          /\ \A i \in 1..Len(TELEGRAM_USER_IDS) :
                 attempts[i].user = TELEGRAM_USER_IDS[i]
          /\ raised = NoException
    /\ attempts # <<>> => AlertSentNow

\* the delivery to the first subscriber failed and the second was tried
C11_TriedAfterFailure ==
    /\ AlertSentNow
    /\ Len(attempts) = 2
    /\ ~attempts[1].ok
    /\ attempts[2].ok

\* the inputs in which two applications of sign() differ
Changed(a, b) ==
    {f \in {"secret", "timestamp", "method", "path", "body", "params"} :
        a.in[f] # b.in[f]}

\* C12: two applications of sign() with the same inputs yield the same
\* signature, and two that differ in exactly one of secret, timestamp,
\* method, path, body (the parameters, in src/mmbot.py) yield different
\* signatures, from different canonical messages unless it is the secret
\* that differs.
C12_AnyChangeChangesSignature ==
    \A i, j \in 1..Len(signs) :
       LET a == signs[i]
           b == signs[j]
       IN  /\ Changed(a, b) = {} => a.signature = b.signature
           /\ Cardinality(Changed(a, b)) = 1 =>
                 /\ a.signature # b.signature
                 /\ Changed(a, b) # {"secret"} => a.message # b.message

\* C12 (amended): same inputs, same signature; the signature changes with
\* the secret and with the canonical message.  Where sign() takes timestamp,
\* method, path and body, a change of timestamp, path or body alone changes
\* the message, and a change of the method does so exactly when the two
\* methods differ after upper-casing.  Where sign() takes the parameters, a
\* change of the parameters changes the message, and method and path of the
\* request are not signed.
C12_SignedInputChangesSignature ==
    \A i, j \in 1..Len(signs) :
       LET a == signs[i]
           b == signs[j]
           ch == Changed(a, b)
       IN  /\ ch = {} => a.signature = b.signature
           /\ a.signature # b.signature <=>
                 (a.in.secret # b.in.secret \/ a.message # b.message)
           /\ Cardinality(ch) = 1 =>
                 /\ ch \subseteq {"timestamp", "body", "params"}
                       => a.message # b.message
                 /\ (variant = "gcbex" /\ ch = {"path"})
                       => a.message # b.message
                 /\ (variant = "gcbex" /\ ch = {"method"})
                       => (a.message # b.message <=>
                              Upper(a.in.method) # Upper(b.in.method))
                 /\ (variant = "mmbot" /\ ch \subseteq {"method", "path"})
                       => a.signature = b.signature
                 /\ ch = {"secret"}
                       => (a.message = b.message /\ a.signature # b.signature)

\* two applications that differ in the timestamp only
C12_TimestampChanged ==
    /\ Len(signs) = 2
    /\ variant = "gcbex"
    /\ Changed(signs[1], signs[2]) = {"timestamp"}
    /\ signs[1].signature # signs[2].signature

\* C13: once main has split SYMBOL, quote_asset is its last 4 characters,
\* base_asset followed by quote_asset is SYMBOL, and base_asset is not
\* empty.
C13_SplitsEverySymbol ==
    fresh.base =>
       /\ Len(quote_asset) = 4
       /\ \A i \in 1..4 : quote_asset[i] = SYMBOL[Len(SYMBOL) - 4 + i]
       /\ base_asset \o quote_asset = SYMBOL
       /\ base_asset # <<>>

\* C13 (amended): for a SYMBOL of more than 4 characters the split is as
\* above; for a SYMBOL of at most 4 characters quote_asset is the whole
\* SYMBOL and base_asset is empty.
C13_SplitsLongSymbol ==
    fresh.base =>
       /\ base_asset \o quote_asset = SYMBOL
       /\ Len(SYMBOL) > 4 =>
             /\ Len(quote_asset) = 4
             /\ \A i \in 1..4 : quote_asset[i] = SYMBOL[Len(SYMBOL) - 4 + i]
             /\ base_asset # <<>>
       /\ Len(SYMBOL) <= 4 =>
             /\ quote_asset = SYMBOL
             /\ base_asset = <<>>

\* ETHUSDT was split into ETH and USDT and the balance of ETH was asked for
C13_EthUsdtSplit ==
    /\ pc = "SLEEP_BASE"
    /\ last.op = "account"
    /\ SYMBOL = <<"E", "T", "H", "U", "S", "D", "T">>
    /\ base_asset = <<"E", "T", "H">>
    /\ quote_asset = <<"U", "S", "D", "T">>

\* the phase of the cycle a position of main() belongs to; 6 is the
\* handler at the loop boundary
PhaseOf(p) ==
    CASE p \in {"FETCH_PRICE", "SLEEP_PRICE", "QUOTE"} -> 1
      [] p \in {"CANCEL_LIST", "CANCEL_EACH", "SLEEP_CANCEL"} -> 2
      [] p \in {"FETCH_BASE", "SLEEP_BASE", "FETCH_QUOTE", "SLEEP_QUOTE"} -> 3
      [] p \in {"EVALUATE_BUY", "SLEEP_BUY"} -> 4
      [] p \in {"EVALUATE_SELL", "SLEEP_SELL"} -> 5
      [] OTHER -> 6

\* C14 (state part): an order request of this cycle went out after the
\* cancel phase ended and both balances were fetched, a SELL only after the
\* buy side was evaluated and after the BUY if there is one, and there is at
\* most one request per side.
C14_OrderInv ==
    /\ submitted # <<>> =>
          /\ PhaseOf(pc) \in {4, 5}
          /\ orders = <<>> /\ idx = 0
          /\ fresh.base /\ fresh.quote
    /\ Cardinality(Requests("BUY")) <= 1
    /\ Cardinality(Requests("SELL")) <= 1
    /\ Requests("SELL") # {} =>
          /\ pc = "SLEEP_SELL"
          /\ submitted[Len(submitted)].side = "SELL"
    /\ Requests("BUY") # {} => submitted[1].side = "BUY"

\* C14: the above holds in every state, and every step stays in its phase,
\* moves to the next one, ends the cycle in the handler, or starts the next
\* cycle from the last phase or from the handler.
C14_PhaseOrder ==
    /\ []C14_OrderInv
    /\ [][\/ PhaseOf(pc') = PhaseOf(pc)
          \/ PhaseOf(pc') = PhaseOf(pc) + 1
          \/ PhaseOf(pc') = 6 /\ PhaseOf(pc) \in {2, 3}
          \/ PhaseOf(pc') = 1 /\ PhaseOf(pc) \in {5, 6}]_vars

\* a cycle that submitted its BUY and then its SELL
C14_BothSubmitted ==
    /\ pc = "SLEEP_SELL"
    /\ Len(submitted) = 2
    /\ submitted[1].side = "BUY"
    /\ submitted[2].side = "SELL"
    /\ cancelClean
    /\ fresh.base /\ fresh.quote

\* C15: in a cycle whose quote (base) balance fetch failed, no BUY (SELL)
\* request goes out, whatever ORDER_SIZE and the prices are.
C15_FailedFetchNoOrder ==
    /\ (BuyEvaluated /\ fetchFailed.quote) => Requests("BUY") = {}
    /\ (SellEvaluated /\ fetchFailed.base) => Requests("SELL") = {}

\* C15 (amended): in a cycle whose quote (base) balance fetch failed, no BUY
\* (SELL) request goes out and the insufficient-funds alert is sent, if the
\* amount the order needs, bid_price * ORDER_SIZE (ORDER_SIZE), is positive;
\* if that amount is 0 the request goes out although the fetch failed.
C15_FailedFetchNoPaidOrder ==
    /\ (BuyEvaluated /\ fetchFailed.quote) =>
          /\ quote_balance = 0
          /\ IF bid_price * ORDER_SIZE > 0
                THEN /\ Requests("BUY") = {}
                     /\ Cardinality(Alerts("nobuy")) = 1
                ELSE Cardinality(Requests("BUY")) = 1
    /\ (SellEvaluated /\ fetchFailed.base) =>
          /\ base_balance = 0
          /\ IF ORDER_SIZE > 0
                THEN /\ Requests("SELL") = {}
                     /\ Cardinality(Alerts("nosell")) = 1
                ELSE Cardinality(Requests("SELL")) = 1

\* the quote balance fetch failed and the BUY of a positive size was skipped
C15_BuySkippedAfterFailedFetch ==
    /\ pc = "SLEEP_BUY"
    /\ fetchFailed.quote
    /\ ORDER_SIZE > 0
    /\ submitted = <<>>
    /\ Cardinality(Alerts("nobuy")) = 1

\* C16 (state part): a list call that returned an error object or another
\* non-list value has issued no cancel request, changed nothing on the
\* exchange, raised nothing, and left main() at the sleep after
\* cancel_all_orders.
C16_NonListInv ==
    (last.op = "openOrders" /\ last.outcome \in {"error", "nonlist"}) =>
       /\ cancelReqs = 0
       /\ orders = <<>> /\ idx = 0
       /\ raised = NoException
       /\ pc = "SLEEP_CANCEL"
       /\ last.val = Len(resting)
       /\ API_SECRET # "None"

C17_FreshInv ==
    /\ PhaseOf(pc) \in {4, 5} => (fresh.base /\ fresh.quote)
    /\ (fresh.base \/ fresh.quote) => PhaseOf(pc) \in {3, 4, 5}
    /\ fresh.quote => fresh.base

\* C17: the above holds in every state; base_balance and quote_balance change
\* only in the get_balance call of their side, which stores what that call
\* returned; and the step that starts a cycle, from the last sleep or from
\* the handler's sleep, leaves no balance marked as fetched.
C17_BalancesOfThisCycle ==
    /\ []C17_FreshInv
    /\ [][/\ base_balance' # base_balance => pc = "FETCH_BASE"
          /\ quote_balance' # quote_balance => pc = "FETCH_QUOTE"
          /\ (pc = "FETCH_BASE" /\ pc' = "SLEEP_BASE") =>
                /\ fresh'.base
                /\ base_balance' =
                      IF last'.outcome = "found" THEN last'.val ELSE 0
          /\ (pc = "FETCH_QUOTE" /\ pc' = "SLEEP_QUOTE") =>
                /\ fresh'.quote
                /\ quote_balance' =
                      IF last'.outcome = "found" THEN last'.val ELSE 0
          /\ (PhaseOf(pc) # 1 /\ PhaseOf(pc') = 1) =>
                (~fresh'.base /\ ~fresh'.quote)]_vars

\* a cycle whose quote balance covered a BUY of positive size is followed by
\* one that fetches 0 and skips the BUY
C17_RefetchedAndSkipped ==
    /\ pc = "SLEEP_BUY"
    /\ ORDER_SIZE > 0
    /\ \E i \in OldResting : resting[i].side = "BUY"
    /\ fresh.quote
    /\ quote_balance = 0
    /\ Requests("BUY") = {}

\* x occurs in y as a run of consecutive characters
IsInfix(x, y) ==
    \E i \in 0..(Len(y) - Len(x)) : SubSeq(y, i + 1, i + Len(x)) = x

\* the request of the current step carries the signature sign() returned,
\* every parameter it sends (each k=v of the query string, the body, the
\* timestamp header) is in the signed message, and the signed message holds
\* nothing more than timestamp, method, path and these parameters
SignedAsSent ==
    /\ Len(signs) = 1
    /\ sent.signature = signs[1].signature
    /\ \A i \in 1..Len(sent.query) :
          IsInfix(QueryField(sent.query[i]), signs[1].message)
    /\ IsInfix(sent.body, signs[1].message)
    /\ IsInfix(sent.timestamp, signs[1].message)
    /\ Len(signs[1].message) =
          Len(signs[1].in.timestamp) + Len(signs[1].in.method)
          + Len(signs[1].in.path) + Len(sent.body) + Len(Query(sent.query))

\* the price of an order request is written with 6 decimals, and that text
\* is both in what is signed and in what is sent
PriceSignedAsSent ==
    LET text == PriceStr(last.val)
    IN  /\ Len(text) > 6
        /\ text[Len(text) - 6] = "."
        /\ IsInfix(text, signs[1].message)
        /\ IsInfix(text, sent.body \o Query(sent.query))

\* C18: every authenticated request is signed over what it sends: its
\* parameters, the formatted order price among them, are the ones in the
\* signed message, and only the signature and the headers are added.
C18_SignatureCoversWire ==
    /\ sent # NoRequest => SignedAsSent
    /\ last.op = "order" => PriceSignedAsSent

\* the quote as the configuration alone fixes it
ConfiguredBid ==
    Max(TARGET_PRICE - (TARGET_PRICE * SPREAD_PERCENT.num) \div SPREAD_PERCENT.den,
        PRICE_FLOOR)

ConfiguredAsk ==
    Min(TARGET_PRICE + (TARGET_PRICE * SPREAD_PERCENT.num) \div SPREAD_PERCENT.den,
        PRICE_CEIL)

\* C19 (state part): whatever get_price returned, bid and ask are the ones
\* the configuration fixes, every order request carries its side's quote
\* and ORDER_SIZE, and whether a side's request went out is decided by the
\* balance fetched and the configuration.
C19_QuoteInv ==
    /\ bid_price # Unset => bid_price = ConfiguredBid
    /\ ask_price # Unset => ask_price = ConfiguredAsk
    /\ \A i \in 1..Len(submitted) :
          /\ submitted[i].quantity = ORDER_SIZE
          /\ submitted[i].side = "BUY" => submitted[i].price = ConfiguredBid
          /\ submitted[i].side = "SELL" => submitted[i].price = ConfiguredAsk
    /\ BuyEvaluated =>
          (Requests("BUY") # {} <=> quote_balance >= ConfiguredBid * ORDER_SIZE)
    /\ SellEvaluated =>
          (Requests("SELL") # {} <=> base_balance >= ORDER_SIZE)

\* C19: the above holds in every state, and once computed bid and ask never
\* change, in whatever way current_price changes from cycle to cycle.
C19_OrdersIgnoreMarketPrice ==
    /\ []C19_QuoteInv
    /\ [][/\ bid_price # Unset => bid_price' = bid_price
          /\ ask_price # Unset => ask_price' = ask_price]_vars

\* get_price returned a market price other than TARGET_PRICE in this cycle,
\* an earlier cycle's BUY still rests, and this cycle's BUY went out at the
\* configured bid
C19_QuotedAwayFromMarket ==
    /\ pc = "SLEEP_BUY"
    /\ current_price # TARGET_PRICE
    /\ \E i \in OldResting : resting[i].side = "BUY"
    /\ Len(submitted) = 1
    /\ submitted[1].side = "BUY"
    /\ submitted[1].price = ConfiguredBid
    /\ submitted[1].price # current_price

====
